---- MODULE Spec2Model ----
(***************************************************************************)
(* A model of the FastAPI todo application (todo-app/app) and of the       *)
(* static model validator described in spec.md.                            *)
(*                                                                         *)
(* Time is counted in minutes.  Python None, SQL NULL and JSON null are    *)
(* the value None; the booleans of the JSON bodies and of the `completed`  *)
(* column are the values True and False.                                   *)
(***************************************************************************)
EXTENDS Integers, Sequences, FiniteSets, TLC

VARIABLES
    users,          \* the `user` table: a sequence of User rows
    heap,           \* the `todo` table: Todo rows in the order a scan returns them
    now,            \* datetime.now(timezone.utc)
    last,           \* the last request served and its response
    createdOrder,   \* history: <<id, creator>> of every stored todo, oldest first
    sreq,           \* the signup requests in flight (SpecSignup)
    call,           \* one call of create_access_token (SpecToken)
    scan            \* one run of the model validator (SpecScan)

vars == <<users, heap, now, last, createdOrder, sreq, call, scan>>

-----------------------------------------------------------------------------
(* Values *)

None == "None"
True == "True"
False == "False"

\* Bounds of the model
MaxId == 2          \* todo ids are 1..MaxId
MaxTime == 1        \* the clock runs over 0..MaxTime
MaxSignups == 3     \* signup requests in flight at once (SpecSignup)
MaxDelta == 16      \* largest expires_delta tried (SpecToken)

Emails == {"a@x", "b@x"}
Passwords == {"p1", "p2"}
Titles == {"t1", "t2"}
Descriptions == {None, "d1"}
TodoFields == {"title", "description", "completed"}

\* Seq helpers
Range(s) == {s[i] : i \in DOMAIN s}

RECURSIVE SeqFilter(_, _)
SeqFilter(s, keep) ==
    IF s = <<>> THEN <<>>
    ELSE IF Head(s) \in keep THEN <<Head(s)>> \o SeqFilter(Tail(s), keep)
    ELSE SeqFilter(Tail(s), keep)

-----------------------------------------------------------------------------
(* app/config.py, app/security.py, app/auth.py *)

secret_key == "secret"
access_token_expire_minutes == 30
DefaultExpireMinutes == 15

NoExp == -1         \* a payload without an "exp" claim
NoDelta == -100     \* expires_delta=None (a timedelta may be negative)

hash_password(password) == <<"argon2", password>>

verify_password(plain_password, hashed_password) ==
    hashed_password = <<"argon2", plain_password>>

\* jwt.encode: the claims, signed with `key`
jwt_encode(to_encode, key) ==
    [key |-> key,
     sub |-> IF "sub" \in DOMAIN to_encode THEN to_encode["sub"] ELSE None,
     exp |-> IF "exp" \in DOMAIN to_encode THEN to_encode["exp"] ELSE NoExp]

\* `expires_delta or timedelta(minutes=15)`: a timedelta is falsy when it is zero
create_access_token(data, expires_delta) ==
    LET delta == IF expires_delta = NoDelta \/ expires_delta = 0
                 THEN DefaultExpireMinutes ELSE expires_delta
        expire == now + delta
        to_encode == [k \in DOMAIN data \cup {"exp"} |->
                         IF k = "exp" THEN expire ELSE data[k]]
    IN  [data |-> data, token |-> jwt_encode(to_encode, secret_key)]

decode_token_AnyKey(token) ==
    IF token.exp = NoExp \/ token.exp >= now
    THEN [valid |-> TRUE, sub |-> token.sub, exp |-> token.exp]
    ELSE [valid |-> FALSE, sub |-> None, exp |-> NoExp]

\* jwt.decode raises JWTError on a bad signature and on an "exp" in the past
decode_token(token) ==
    IF token.key = secret_key /\ (token.exp = NoExp \/ token.exp >= now)
    THEN [valid |-> TRUE, sub |-> token.sub, exp |-> token.exp]
    ELSE [valid |-> FALSE, sub |-> None, exp |-> NoExp]

-----------------------------------------------------------------------------
(* app/models.py *)

NoUser == [id |-> 0, name |-> None, email |-> None,
           hashed_password |-> <<>>, created_at |-> 0]

User(id, name, email, hashed_password) ==
    [id |-> id, name |-> name, email |-> email,
     hashed_password |-> hashed_password, created_at |-> now]

UserRead(user) == [id |-> user.id, name |-> user.name, email |-> user.email]

Todo(id, title, description, owner_id) ==
    [id |-> id, title |-> title, description |-> description, completed |-> False,
     owner_id |-> owner_id, created_at |-> now, updated_at |-> now]

TodoRead(todo) ==
    [id |-> todo.id, title |-> todo.title, description |-> todo.description,
     completed |-> todo.completed, created_at |-> todo.created_at,
     updated_at |-> todo.updated_at]

TodoReads(todos) == [i \in DOMAIN todos |-> TodoRead(todos[i])]

\* The columns declared without `| None` are NOT NULL
NotNullOk(todo) == todo.title # None /\ todo.completed # None

\* User.email is declared unique=True
EmailUnique(email) == \A i \in DOMAIN users : users[i].email # email

-----------------------------------------------------------------------------
(* app/dependencies.py *)

get_current_user(token) ==
    LET payload == decode_token(token)
        found == {i \in DOMAIN users : users[i].email = payload.sub}
    IN  IF ~payload.valid THEN NoUser
        ELSE IF payload.sub = None THEN NoUser
        ELSE IF found = {} THEN NoUser
        ELSE users[CHOOSE i \in found : \A j \in found : i <= j]

-----------------------------------------------------------------------------
(* The requests and their responses *)

NoToken == [key |-> None, sub |-> None, exp |-> NoExp]

\* kind: the handler; token, todo_id, input: the request (its bearer token, its
\* path parameter, its JSON body or form); user: the id of current_user (0: none);
\* status, detail, body: the response
NoRequest ==
    [kind |-> "none", token |-> NoToken, user |-> 0, todo_id |-> 0,
     input |-> <<>>, status |-> 0, detail |-> "", body |-> <<>>]

Response(kind, token, user, todo_id, input, status, detail, body) ==
    [kind |-> kind, token |-> token, user |-> user, todo_id |-> todo_id,
     input |-> input, status |-> status, detail |-> detail, body |-> body]

credentials_exception(kind, token, todo_id, input) ==
    /\ last' = Response(kind, token, 0, todo_id, input, 401,
                        "Could not validate credentials", <<>>)
    /\ UNCHANGED <<users, heap, now, createdOrder, sreq, call, scan>>

NotFound(kind, token, user, todo_id, input) ==
    /\ last' = Response(kind, token, user, todo_id, input, 404, "Todo not found", <<>>)
    /\ UNCHANGED <<users, heap, now, createdOrder, sreq, call, scan>>

\* An exception no handler catches (the session is rolled back on close)
ServerError(kind, token, user, todo_id, input) ==
    /\ last' = Response(kind, token, user, todo_id, input, 500,
                        "Internal Server Error", <<>>)
    /\ UNCHANGED <<users, heap, now, createdOrder, sreq, call, scan>>

-----------------------------------------------------------------------------
(* app/routers/todos.py *)

SelectByOwner_AllRows(owner_id) == heap

\* select(Todo).where(Todo.owner_id == current_user.id): no ORDER BY, the rows
\* come in the order of the table scan
SelectByOwner(owner_id) ==
    SeqFilter(heap, {r \in Range(heap) : r.owner_id = owner_id})

SelectOne_AnyOwner(todo_id, owner_id) ==
    {i \in DOMAIN heap : heap[i].id = todo_id}

\* select(Todo).where(Todo.id == todo_id, Todo.owner_id == current_user.id)
SelectOne(todo_id, owner_id) ==
    {i \in DOMAIN heap : heap[i].id = todo_id /\ heap[i].owner_id = owner_id}

\* The primary key the database gives a new row: above every stored id
\* (SQLite: the largest rowid plus one; a sequence: its next value)
NewIds == {i \in 1..MaxId : \A r \in Range(heap) : i > r.id}

RemoveAt(s, i) == [j \in 1..(Len(s) - 1) |-> IF j < i THEN s[j] ELSE s[j + 1]]

\* An UPDATE rewrites the row where it is, or (a multi-version store) writes
\* the new version behind the rows of the table and frees the old one
Rewritten(i, todo) ==
    {[heap EXCEPT ![i] = todo], Append(RemoveAt(heap, i), todo)}

model_dump(todo_update) ==
    [f \in TodoFields |-> IF f \in DOMAIN todo_update THEN todo_update[f] ELSE None]

model_dump_exclude_unset_All(todo_update) == model_dump(todo_update)

model_dump_exclude_unset(todo_update) == todo_update

\* for key, value in update_data.items(): setattr(todo, key, value)
SetAll(todo, update_data) ==
    [f \in DOMAIN todo |-> IF f \in DOMAIN update_data THEN update_data[f] ELSE todo[f]]

\* ... if value is not None: setattr(todo, key, value)
SetNotNone(todo, update_data) ==
    [f \in DOMAIN todo |->
        IF f \in DOMAIN update_data /\ update_data[f] # None
        THEN update_data[f] ELSE todo[f]]

list_todos(token) ==
    LET current_user == get_current_user(token) IN
    IF current_user.id = 0 THEN credentials_exception("list_todos", token, 0, <<>>)
    ELSE /\ last' = Response("list_todos", token, current_user.id, 0, <<>>, 200, "",
                             TodoReads(SelectByOwner(current_user.id)))
         /\ UNCHANGED <<users, heap, now, createdOrder, sreq, call, scan>>

get_todo(token, todo_id) ==
    LET current_user == get_current_user(token)
        found == SelectOne(todo_id, current_user.id)
    IN  IF current_user.id = 0
        THEN credentials_exception("get_todo", token, todo_id, <<>>)
        ELSE IF found = {}
        THEN NotFound("get_todo", token, current_user.id, todo_id, <<>>)
        ELSE /\ last' = Response("get_todo", token, current_user.id, todo_id, <<>>,
                                 200, "", <<TodoRead(heap[CHOOSE i \in found : TRUE])>>)
             /\ UNCHANGED <<users, heap, now, createdOrder, sreq, call, scan>>

create_todo(token, todo_create) ==
    LET current_user == get_current_user(token) IN
    IF current_user.id = 0
    THEN credentials_exception("create_todo", token, 0, todo_create)
    ELSE \E id \in NewIds :
            LET todo == Todo(id, todo_create.title, todo_create.description,
                             current_user.id)
            IN  /\ heap' = Append(heap, todo)
                /\ createdOrder' = Append(createdOrder, <<id, current_user.id>>)
                /\ last' = Response("create_todo", token, current_user.id, id,
                                    todo_create, 201, "", <<TodoRead(todo)>>)
                /\ UNCHANGED <<users, now, sreq, call, scan>>

update_todo_patch(token, todo_id, todo_update) ==
    LET current_user == get_current_user(token)
        found == SelectOne(todo_id, current_user.id)
        update_data == model_dump_exclude_unset(todo_update)
    IN  IF current_user.id = 0
        THEN credentials_exception("update_todo_patch", token, todo_id, todo_update)
        ELSE IF found = {}
        THEN NotFound("update_todo_patch", token, current_user.id, todo_id, todo_update)
        ELSE LET i == CHOOSE i \in found : TRUE
                 todo == IF DOMAIN update_data # {}
                         THEN [SetAll(heap[i], update_data) EXCEPT !.updated_at = now]
                         ELSE heap[i]
             IN  IF ~NotNullOk(todo)
                 THEN ServerError("update_todo_patch", token, current_user.id,
                                  todo_id, todo_update)
                 ELSE /\ heap' \in Rewritten(i, todo)
                      /\ last' = Response("update_todo_patch", token, current_user.id,
                                          todo_id, todo_update, 200, "",
                                          <<TodoRead(todo)>>)
                      /\ UNCHANGED <<users, now, createdOrder, sreq, call, scan>>

update_todo_put(token, todo_id, todo_update) ==
    LET current_user == get_current_user(token)
        found == SelectOne(todo_id, current_user.id)
        update_data == model_dump(todo_update)
    IN  IF current_user.id = 0
        THEN credentials_exception("update_todo_put", token, todo_id, todo_update)
        ELSE IF found = {}
        THEN NotFound("update_todo_put", token, current_user.id, todo_id, todo_update)
        ELSE LET i == CHOOSE i \in found : TRUE
                 todo == [SetNotNone(heap[i], update_data) EXCEPT !.updated_at = now]
             IN  /\ heap' \in Rewritten(i, todo)
                 /\ last' = Response("update_todo_put", token, current_user.id,
                                     todo_id, todo_update, 200, "", <<TodoRead(todo)>>)
                 /\ UNCHANGED <<users, now, createdOrder, sreq, call, scan>>

delete_todo(token, todo_id) ==
    LET current_user == get_current_user(token)
        found == SelectOne(todo_id, current_user.id)
    IN  IF current_user.id = 0
        THEN credentials_exception("delete_todo", token, todo_id, <<>>)
        ELSE IF found = {}
        THEN NotFound("delete_todo", token, current_user.id, todo_id, <<>>)
        ELSE LET i == CHOOSE i \in found : TRUE IN
             /\ heap' = RemoveAt(heap, i)
             /\ createdOrder' = SeqFilter(createdOrder,
                                  {p \in Range(createdOrder) : p[1] # todo_id})
             /\ last' = Response("delete_todo", token, current_user.id, todo_id, <<>>,
                                 204, "", <<>>)
             /\ UNCHANGED <<users, now, sreq, call, scan>>

-----------------------------------------------------------------------------
(* app/main.py *)

FirstByEmail(email) ==
    LET found == {i \in DOMAIN users : users[i].email = email}
    IN  IF found = {} THEN NoUser
        ELSE users[CHOOSE i \in found : \A j \in found : i <= j]

SignupIdle == [pc |-> "idle", user_data |-> <<>>, status |-> 0, detail |-> ""]

\* signup, lines 75-82: the SELECT for the email, and the 400 when it finds a row
signup_select(r, user_data) ==
    /\ sreq[r].pc = "idle"
    /\ sreq' = [sreq EXCEPT ![r] =
                  IF FirstByEmail(user_data.email).id # 0
                  THEN [pc |-> "done", user_data |-> user_data, status |-> 400,
                        detail |-> "Email already registered"]
                  ELSE [pc |-> "insert", user_data |-> user_data, status |-> 0,
                        detail |-> ""]]
    /\ UNCHANGED <<users, heap, now, last, createdOrder, call, scan>>

\* signup, lines 84-92: the INSERT and its commit; the unique index on
\* user.email refuses a second row for an email (IntegrityError, not caught)
signup_commit(r) ==
    /\ sreq[r].pc = "insert"
    /\ LET user_data == sreq[r].user_data IN
       IF EmailUnique(user_data.email)
       THEN /\ users' = Append(users, User(Len(users) + 1, user_data.name,
                                           user_data.email,
                                           hash_password(user_data.password)))
            /\ sreq' = [sreq EXCEPT ![r] = [@ EXCEPT !.pc = "done", !.status = 201]]
       ELSE /\ users' = users
            /\ sreq' = [sreq EXCEPT ![r] = [@ EXCEPT !.pc = "done", !.status = 500,
                                             !.detail = "Internal Server Error"]]
    /\ UNCHANGED <<heap, now, last, createdOrder, call, scan>>

login(username, password) ==
    LET user == FirstByEmail(username)
        form_data == [username |-> username, password |-> password]
    IN  /\ last' =
            IF user.id = 0 \/ ~verify_password(password, user.hashed_password)
            THEN Response("login", NoToken, 0, 0, form_data, 401,
                          "Incorrect email or password", <<>>)
            ELSE Response("login", NoToken, user.id, 0, form_data, 200, "",
                          <<create_access_token([sub |-> user.email],
                                                access_token_expire_minutes).token>>)
        /\ UNCHANGED <<users, heap, now, createdOrder, sreq, call, scan>>

read_current_user(token) ==
    LET current_user == get_current_user(token) IN
    IF current_user.id = 0
    THEN credentials_exception("read_current_user", token, 0, <<>>)
    ELSE /\ last' = Response("read_current_user", token, current_user.id, 0, <<>>,
                             200, "", <<UserRead(current_user)>>)
         /\ UNCHANGED <<users, heap, now, createdOrder, sreq, call, scan>>

\* One call of create_access_token
CreateAccessToken ==
    /\ call.pc = "call"
    /\ LET r == create_access_token(call.data, call.expires_delta)
       IN  call' = [call EXCEPT !.pc = "done", !.data = r.data, !.token = r.token]
    /\ UNCHANGED <<users, heap, now, last, createdOrder, sreq, scan>>

\* The clock advances between requests
Tick ==
    /\ now < MaxTime
    /\ now' = now + 1
    /\ last' = NoRequest
    /\ UNCHANGED <<users, heap, createdOrder, sreq, call, scan>>

-----------------------------------------------------------------------------
(* The todo API served to two registered users *)

Idle == <<>>        \* the value of a variable the specification does not use

RegisteredUsers ==
    <<[id |-> 1, name |-> None, email |-> "a@x",
       hashed_password |-> hash_password("p1"), created_at |-> 0],
      [id |-> 2, name |-> "b", email |-> "b@x",
       hashed_password |-> hash_password("p2"), created_at |-> 0]>>

\* The bearer tokens of the requests: the one login gave each user at time 0
IssuedAtZero(email) ==
    [key |-> secret_key, sub |-> email, exp |-> access_token_expire_minutes]

ClientTokens == {IssuedAtZero(e) : e \in Emails}

TodoIds == 1..MaxId

Restrict(f, S) == [x \in S |-> f[x]]

\* The TodoUpdate bodies: the fields a body sets (model_fields_set), with values
TodoUpdates ==
    {Restrict(full, S) :
        full \in [title : Titles \cup {None}, description : Descriptions,
                  completed : {True, False, None}],
        S \in SUBSET TodoFields}

Init ==
    /\ users = RegisteredUsers
    /\ heap = <<>>
    /\ now = 0
    /\ last = NoRequest
    /\ createdOrder = <<>>
    /\ sreq = Idle
    /\ call = Idle
    /\ scan = Idle

\* Two users create, list, read, rename and delete todos
Next ==
    \/ \E token \in ClientTokens : list_todos(token)
    \/ \E token \in ClientTokens, todo_id \in TodoIds : get_todo(token, todo_id)
    \/ \E token \in ClientTokens :
          create_todo(token, [title |-> "t1", description |-> None])
    \/ \E token \in ClientTokens, todo_id \in TodoIds :
          update_todo_patch(token, todo_id, [title |-> "t2"])
    \/ \E token \in ClientTokens, todo_id \in TodoIds :
          update_todo_put(token, todo_id, [title |-> "t2"])
    \/ \E token \in ClientTokens, todo_id \in TodoIds : delete_todo(token, todo_id)
    \/ Tick

Spec == Init /\ [][Next]_vars

\* One stored todo of user 1, of any content, updated with every body
InitUpdate ==
    /\ users = RegisteredUsers
    /\ \E title \in Titles, description \in Descriptions, completed \in {True, False} :
          heap = <<[id |-> 1, title |-> title, description |-> description,
                    completed |-> completed, owner_id |-> 1,
                    created_at |-> 0, updated_at |-> 0]>>
    /\ now = 0
    /\ last = NoRequest
    /\ createdOrder = << <<1, 1>> >>
    /\ sreq = Idle
    /\ call = Idle
    /\ scan = Idle

NextUpdate ==
    \/ \E token \in ClientTokens, todo_id \in TodoIds : get_todo(token, todo_id)
    \/ \E token \in ClientTokens, todo_id \in TodoIds, todo_update \in TodoUpdates :
          update_todo_patch(token, todo_id, todo_update)
    \/ \E token \in ClientTokens, todo_id \in TodoIds, todo_update \in TodoUpdates :
          update_todo_put(token, todo_id, todo_update)
    \/ Tick

SpecUpdate == InitUpdate /\ [][NextUpdate]_vars

-----------------------------------------------------------------------------
(* The static model validator (spec.md sections 3 and 4).  A string that the
   validator splits is a sequence of tokens, "." being the token Dot. *)

Dot == "."

\* 4.1 step 3: the lowercased class name
Lower(name) ==
    CASE name = "User" -> <<"user">>
      [] name = "Todo" -> <<"todo">>
      [] OTHER -> <<name>>

\* 4.1: the ModelRecord of one class declaration of a unit
ExtractModel(decl, unit) ==
    [name |-> decl.name,
     table_name |-> IF decl.tablename # <<>> THEN decl.tablename ELSE Lower(decl.name),
     has_table |-> decl.table,
     primary_keys |-> decl.primary_keys,
     foreign_keys |-> decl.foreign_keys,
     relationships |-> decl.relationships,
     origin |-> unit]

\* 4.1 step 6: stored keyed by class name, a later declaration replaces an earlier
PutModel(models, m) ==
    [map |-> [n \in DOMAIN models.map \cup {m.name} |->
                 IF n = m.name THEN m ELSE models.map[n]],
     order |-> IF m.name \in DOMAIN models.map THEN models.order
               ELSE Append(models.order, m.name)]

RECURSIVE ExtractAll(_, _, _)
ExtractAll(decls, unit, models) ==
    IF decls = <<>> THEN models
    ELSE ExtractAll(Tail(decls), unit, PutModel(models, ExtractModel(Head(decls), unit)))

RECURSIVE Flatten(_)
Flatten(ss) == IF ss = <<>> THEN <<>> ELSE Head(ss) \o Flatten(Tail(ss))

Issue(severity, m, message) ==
    [severity |-> severity, model |-> m.name, origin |-> m.origin, message |-> message]

\* 4.2 primary-key rule
PrimaryKeyIssues(m) ==
    IF m.has_table /\ m.primary_keys = <<>>
    THEN <<Issue("error", m, <<"Table model", m.name, "has no primary key">>)>>
    ELSE <<>>

KnownTables_AnyModel(map) == {map[n].table_name : n \in DOMAIN map}

\* 3: the table names of the has_table models of the whole collected mapping
KnownTables(map) == {map[n].table_name : n \in {x \in DOMAIN map : map[x].has_table}}

HasDot(ref) == \E i \in DOMAIN ref : ref[i] = Dot

\* What precedes the first "."
RefTable(ref) ==
    LET first == CHOOSE i \in DOMAIN ref :
                    ref[i] = Dot /\ \A j \in 1..(i - 1) : ref[j] # Dot
    IN  SubSeq(ref, 1, first - 1)

\* 4.2 foreign-key rule
ForeignKeyIssues(m, known) ==
    Flatten([i \in DOMAIN m.foreign_keys |->
        LET fk == m.foreign_keys[i] IN
        IF HasDot(fk.ref) /\ RefTable(fk.ref) \notin known
        THEN <<Issue("warning", m, <<"Foreign key", fk.field,
                                     "references unknown table", RefTable(fk.ref)>>)>>
        ELSE <<>>])

Mirrors_NameOnly(q, m, rel) == q.back_populates = rel.field

\* 4.2: a relationship of the target that mirrors `rel` of model m
Mirrors(q, m, rel) == q.back_populates = rel.field /\ q.target = m.name

\* 4.2 relationship-symmetry rule
RelationshipIssues(m, map) ==
    Flatten([i \in DOMAIN m.relationships |->
        LET rel == m.relationships[i] IN
        IF rel.back_populates = None \/ rel.target = None THEN <<>>
        ELSE IF rel.target \notin DOMAIN map THEN <<>>
        ELSE IF \E k \in DOMAIN map[rel.target].relationships :
                    Mirrors(map[rel.target].relationships[k], m, rel)
        THEN <<>>
        ELSE <<Issue("error", m, <<"Relationship", rel.field, "has back_populates",
                                   rel.back_populates,
                                   "but no matching relationship found in",
                                   rel.target>>)>>])

\* 4.2: three passes over the models in insertion order
validate(models) ==
    LET map == models.map
        order == models.order
        known == KnownTables(map)
    IN  Flatten([i \in DOMAIN order |-> PrimaryKeyIssues(map[order[i]])])
        \o Flatten([i \in DOMAIN order |-> ForeignKeyIssues(map[order[i]], known)])
        \o Flatten([i \in DOMAIN order |-> RelationshipIssues(map[order[i]], map)])

\* 4.3: one unit of the scan is parsed and extracted into the combined mapping
ExtractUnit(k) ==
    /\ scan.phase = "collect"
    /\ k \in scan.pending
    /\ scan' = [scan EXCEPT !.pending = @ \ {k},
                            !.models = ExtractAll(scan.units[k], k, @)]
    /\ UNCHANGED <<users, heap, now, last, createdOrder, sreq, call>>

\* 4.3: the checks run once, after the last unit has been extracted
Validate ==
    /\ scan.phase = "collect"
    /\ scan.pending = {}
    /\ scan' = [scan EXCEPT !.phase = "done", !.issues = validate(scan.models)]
    /\ UNCHANGED <<users, heap, now, last, createdOrder, sreq, call>>

-----------------------------------------------------------------------------
(* Authentication: requests with any bearer token, while the clock runs *)

AuthTokens ==
    [key : {secret_key, "forged"},
     sub : Emails \cup {None},
     exp : {NoExp, 0} \cup {t + access_token_expire_minutes : t \in 0..MaxTime}]

InitAuth ==
    /\ users \in {<<RegisteredUsers[1]>>, RegisteredUsers}
    /\ heap = <<>>
    /\ now = 0
    /\ last = NoRequest
    /\ createdOrder = <<>>
    /\ sreq = Idle
    /\ call = Idle
    /\ scan = Idle

NextAuth ==
    \/ \E username \in Emails, password \in Passwords : login(username, password)
    \/ \E token \in AuthTokens : read_current_user(token)
    \/ \E token \in AuthTokens : list_todos(token)
    \/ \E token \in AuthTokens, todo_id \in TodoIds : get_todo(token, todo_id)
    \/ \E token \in AuthTokens :
          /\ heap = <<>>
          /\ create_todo(token, [title |-> "t1", description |-> None])
    \/ \E token \in AuthTokens, todo_id \in TodoIds :
          update_todo_patch(token, todo_id, [title |-> "t2"])
    \/ \E token \in AuthTokens, todo_id \in TodoIds :
          update_todo_put(token, todo_id, [title |-> "t2"])
    \/ \E token \in AuthTokens, todo_id \in TodoIds : delete_todo(token, todo_id)
    \/ Tick

SpecAuth == InitAuth /\ [][NextAuth]_vars

-----------------------------------------------------------------------------
(* Signups served concurrently: each request's SELECT and INSERT are two steps *)

UserCreates == [name : {None}, email : Emails, password : {"p1"}]

InitSignup ==
    /\ users = <<>>
    /\ heap = <<>>
    /\ now = 0
    /\ last = NoRequest
    /\ createdOrder = <<>>
    /\ sreq = [r \in 1..MaxSignups |-> SignupIdle]
    /\ call = Idle
    /\ scan = Idle

NextSignup ==
    \/ \E r \in 1..MaxSignups, user_data \in UserCreates : signup_select(r, user_data)
    \/ \E r \in 1..MaxSignups : signup_commit(r)

SpecSignup == InitSignup /\ [][NextSignup]_vars

-----------------------------------------------------------------------------
(* create_access_token called with every mapping and every expires_delta *)

DataMaps == {[sub |-> "a@x"], [sub |-> "b@x"], [sub |-> "a@x", exp |-> 5]}

InitToken ==
    /\ users = <<>>
    /\ heap = <<>>
    /\ now \in 0..MaxTime
    /\ last = NoRequest
    /\ createdOrder = <<>>
    /\ sreq = Idle
    /\ \E data \in DataMaps, expires_delta \in {NoDelta} \cup (-2..MaxDelta) :
          call = [pc |-> "call", given |-> data, data |-> data,
                  expires_delta |-> expires_delta, token |-> NoToken]
    /\ scan = Idle

NextToken == CreateAccessToken

SpecToken == InitToken /\ [][NextToken]_vars

-----------------------------------------------------------------------------
(* A scan of two source units, extracted in either order *)

ForeignKeys ==
    {<<>>} \cup
    {<<[field |-> "owner_id", ref |-> ref]>> :
        ref \in {<<"user", Dot, "id">>, <<"todo", Dot, "id">>, <<"ghost", Dot, "id">>,
                 <<"user", Dot, "a", Dot, "b">>, <<"user">>}}

Relationships ==
    {<<rel>> : rel \in [field : {"todos", "owner"}, target : {"User", "Todo", None},
                        back_populates : {"todos", "owner", None}]}

Declarations ==
    [name : {"User", "Todo"}, table : BOOLEAN, tablename : {<<>>},
     primary_keys : {<<"id">>}, foreign_keys : ForeignKeys, relationships : {<<>>}]
    \cup
    [name : {"User", "Todo"}, table : {TRUE}, tablename : {<<>>},
     primary_keys : {<<"id">>}, foreign_keys : {<<>>}, relationships : Relationships]
    \cup
    {[name |-> "User", table |-> TRUE, tablename |-> <<"people">>,
      primary_keys |-> <<>>, foreign_keys |-> <<>>, relationships |-> <<>>]}

Units ==
    {<<>>} \cup {<<d>> : d \in Declarations}

LongUnits ==
    Units \cup {<<d, e>> : d \in Declarations, e \in Declarations}

InitScan ==
    /\ users = <<>>
    /\ heap = <<>>
    /\ now = 0
    /\ last = NoRequest
    /\ createdOrder = <<>>
    /\ sreq = Idle
    /\ call = Idle
    /\ \E u1 \in LongUnits, u2 \in Units :
          scan = [units |-> <<u1, u2>>, pending |-> {1, 2},
                  models |-> [map |-> <<>>, order |-> <<>>],
                  phase |-> "collect", issues |-> <<>>]

NextScan ==
    \/ \E k \in {1, 2} : ExtractUnit(k)
    \/ Validate

SpecScan == InitScan /\ [][NextScan]_vars

-----------------------------------------------------------------------------
(* Properties of the todo API *)

ItemKinds == {"get_todo", "update_todo_patch", "update_todo_put", "delete_todo"}

\* The ids of the todos user u created and has not deleted since
Mine(u) == {p[1] : p \in {q \in Range(createdOrder) : q[2] = u}}

BodyIds == [i \in DOMAIN last.body |-> last.body[i].id]

Listed == last.kind = "list_todos" /\ last.status = 200

\* C1: every todo is stored with the owner_id of the user who created it, and
\* GET /todos/ returns exactly the todos its caller created and has not deleted
\* since, each once, and no todo of another user.
C1_ListIsOwnTodos ==
    /\ \A i \in DOMAIN heap : <<heap[i].id, heap[i].owner_id>> \in Range(createdOrder)
    /\ Listed =>
          /\ Range(BodyIds) = Mine(last.user)
          /\ Len(last.body) = Cardinality(Mine(last.user))
          /\ \A i \in DOMAIN last.body : \E j \in DOMAIN heap :
                /\ heap[j].owner_id = last.user
                /\ TodoRead(heap[j]) = last.body[i]

\* A list of one user's todos served while the other user has a todo stored
C1_Witness ==
    /\ Listed
    /\ Len(last.body) >= 1
    /\ \E i \in DOMAIN heap : heap[i].owner_id # last.user

\* What a body carries for a field: its value, null when the body leaves it out
Carried(todo_update, f) ==
    IF f \in DOMAIN todo_update THEN todo_update[f] ELSE None

\* C2: after a PUT on a todo of the caller, title, description and completed of
\* the stored todo and of the response each equal the value the body carries.
C2_PutReplacesAllFields ==
    (last.kind = "update_todo_put" /\ last.status = 200) =>
        \E i \in DOMAIN heap :
            /\ heap[i].id = last.todo_id
            /\ \A f \in TodoFields :
                  /\ heap[i][f] = Carried(last.input, f)
                  /\ last.body[1][f] = Carried(last.input, f)

ProvidesNull(todo_update, f) == f \in DOMAIN todo_update /\ todo_update[f] = None

HasStored(u, todo_id) ==
    \E i \in DOMAIN heap : heap[i].id = todo_id /\ heap[i].owner_id = u

\* C4: GET, PATCH, PUT and DELETE on /todos/{id} by a caller who has no stored
\* todo with that id (never created, owned by another user, or just removed by
\* the caller's own DELETE answered 204) are answered 404 'Todo not found' and
\* leave every stored todo unchanged.
C4_NotFoundChangesNothing ==
    [][(last'.kind \in ItemKinds /\ last'.user # 0) =>
        /\ ~HasStored(last'.user, last'.todo_id) =>
              /\ last'.status = 404
              /\ last'.detail = "Todo not found"
              /\ heap' = heap
        /\ (/\ last.kind = "delete_todo"
            /\ last.status = 204
            /\ last'.user = last.user
            /\ last'.todo_id = last.todo_id) =>
              last'.status = 404
      ]_vars

\* A 404 for a todo that is stored, but belongs to the other user
C4_Witness ==
    /\ last.kind \in ItemKinds
    /\ last.status = 404
    /\ \E i \in DOMAIN heap : heap[i].id = last.todo_id /\ heap[i].owner_id # last.user

\* C5: GET /todos/ returns the caller's todos in the order of their creation.
C5_ListInCreationOrder ==
    Listed =>
        LET mine == SeqFilter(createdOrder, {p \in Range(createdOrder) : p[2] = last.user})
        IN  BodyIds = [i \in DOMAIN mine |-> mine[i][1]]

-----------------------------------------------------------------------------
(* Properties of signup, authentication and token issue *)

\* C8: every signup request that stores no user is answered 400 'Email already
\* registered' (its email belongs to a stored user), and no two stored users
\* share an email, however the steps of the requests interleave.
C8_DuplicateSignupGets400 ==
    /\ \A r \in DOMAIN sreq :
          (sreq[r].pc = "done" /\ sreq[r].status # 201) =>
              /\ sreq[r].status = 400
              /\ sreq[r].detail = "Email already registered"
    /\ \A i, j \in DOMAIN users : i # j => users[i].email # users[j].email

ProtectedKinds == ItemKinds \cup {"list_todos", "create_todo", "read_current_user"}

\* The token decodes with the configured key, is not expired, carries a sub,
\* and the sub is the email of a stored user
Authentic(token) ==
    /\ token.key = secret_key
    /\ token.exp = NoExp \/ token.exp >= now
    /\ token.sub # None
    /\ \E i \in DOMAIN users : users[i].email = token.sub

C10_ExpiryIsIssuePlusDelta ==
    call.pc = "done" =>
        /\ call.token.exp = now + (IF call.expires_delta = NoDelta
                                   THEN DefaultExpireMinutes ELSE call.expires_delta)
        /\ call.token.sub = call.given["sub"]
        /\ call.data = call.given

-----------------------------------------------------------------------------
(* Properties of the model validator *)

Scanned == scan.phase = "done"

AllDeclarations == Range(scan.units[1]) \cup Range(scan.units[2])

\* No class name is declared twice in the scan
NamesDistinct ==
    Cardinality({d.name : d \in AllDeclarations}) = Len(scan.units[1]) + Len(scan.units[2])

\* The table names of the table=True declarations of the scanned units
DeclaredTables ==
    {ExtractModel(d, 0).table_name : d \in {x \in AllDeclarations : x.table}}

\* The table names of the has_table models of the combined mapping
MappedTables ==
    {scan.models.map[n].table_name :
        n \in {x \in DOMAIN scan.models.map : scan.models.map[x].has_table}}

FKWarned(name, field) ==
    \E i \in DOMAIN scan.issues :
        /\ scan.issues[i].severity = "warning"
        /\ scan.issues[i].model = name
        /\ scan.issues[i].message[1] = "Foreign key"
        /\ scan.issues[i].message[2] = field

RelError(name, field) ==
    \E i \in DOMAIN scan.issues :
        /\ scan.issues[i].severity = "error"
        /\ scan.issues[i].model = name
        /\ scan.issues[i].message[1] = "Relationship"
        /\ scan.issues[i].message[2] = field

Unknown(ref, tables) == HasDot(ref) /\ RefTable(ref) \notin tables

WarnedAsDeclared ==
    \A d \in AllDeclarations : \A i \in DOMAIN d.foreign_keys :
        FKWarned(d.name, d.foreign_keys[i].field)
            <=> Unknown(d.foreign_keys[i].ref, DeclaredTables)

\* A warning is emitted for a field of a model of the combined mapping iff its
\* reference contains a "." and the table before the first "." is not the
\* table_name of a has_table model of that mapping; and for nothing else
WarnedAsMapped ==
    /\ \A n \in DOMAIN scan.models.map :
          \A i \in DOMAIN scan.models.map[n].foreign_keys :
             LET fk == scan.models.map[n].foreign_keys[i]
             IN  FKWarned(n, fk.field) <=> Unknown(fk.ref, MappedTables)
    /\ \A i \in DOMAIN scan.issues :
          scan.issues[i].severity = "warning" =>
             /\ scan.issues[i].model \in DOMAIN scan.models.map
             /\ \E k \in DOMAIN scan.models.map[scan.issues[i].model].foreign_keys :
                   scan.models.map[scan.issues[i].model].foreign_keys[k].field
                      = scan.issues[i].message[2]

Warnings(issues) ==
    {<<issues[i].model, issues[i].message>> :
        i \in {k \in DOMAIN issues : issues[k].severity = "warning"}}

NoModels == [map |-> <<>>, order |-> <<>>]

\* The warnings of the run are those of a scan of the units in either order
OrderIndependent ==
    /\ Warnings(scan.issues) =
          Warnings(validate(ExtractAll(scan.units[2], 2,
                                       ExtractAll(scan.units[1], 1, NoModels))))
    /\ Warnings(scan.issues) =
          Warnings(validate(ExtractAll(scan.units[1], 1,
                                       ExtractAll(scan.units[2], 2, NoModels))))

\* No class name is declared in both units
NoNameInBothUnits ==
    {d.name : d \in Range(scan.units[1])} \cap {d.name : d \in Range(scan.units[2])} = {}

\* C6 as stated: a foreign-key warning is emitted for a field iff its reference
\* contains a "." and the table before the first "." is not the table_name of a
\* has_table model of the combined scan, and the result does not depend on the
\* order in which the units are scanned.
C6_WarningsIndependentOfOrder == Scanned => WarnedAsMapped /\ OrderIndependent

\* C6, amended: the warning is emitted for a field of a model of the combined
\* mapping (where a later-extracted declaration replaces an earlier one of the
\* same name) iff its reference contains a "." and the table before the first "."
\* is not the table_name of a has_table model of that mapping; the result does
\* not depend on the order of the units when no class name is declared in both,
\* and is decided by the table=True declarations of the whole scan when no
\* class name is declared twice.
C6_WarningIffTableUnknownInMapping ==
    Scanned =>
        /\ WarnedAsMapped
        /\ NoNameInBothUnits => OrderIndependent
        /\ NamesDistinct => WarnedAsDeclared

\* Todo.owner_id references user.id, User is declared table=True in the unit
\* extracted after Todo's, and no warning is emitted
C6_Witness ==
    /\ Scanned
    /\ scan.models.order = <<"Todo", "User">>
    /\ scan.models.map["Todo"].origin # scan.models.map["User"].origin
    /\ scan.models.map["Todo"].foreign_keys =
          <<[field |-> "owner_id", ref |-> <<"user", Dot, "id">>]>>
    /\ scan.models.map["User"].has_table
    /\ ~FKWarned("Todo", "owner_id")

\* The relationships (a, rel) the symmetry rule decides: back_populates set and
\* the target among the scanned models
Decided(a, rel) ==
    /\ rel.back_populates # None
    /\ rel.target # None
    /\ rel.target \in DOMAIN scan.models.map

RelsOf(n) == Range(scan.models.map[n].relationships)

====
